---- MODULE Spec2Model ----
(***************************************************************************)
(* Merge Sort Visualizer (src/mergesort.py).                               *)
(*                                                                         *)
(* Two state machines over the same variables:                             *)
(*   SpecSort  the step recorder, MergeSortVisualizer.merge_sort_with_steps *)
(*             and merge_with_steps, applied to every bounded input;       *)
(*   Spec      the Streamlit session of main(): one action per user        *)
(*             interaction, one per statement of a handler that writes the *)
(*             session, one for the run's way through the main column and  *)
(*             one per iteration of the auto-play loop.                    *)
(*                                                                         *)
(* Python lists are TLA+ sequences.  Index VALUES stored in the program    *)
(* (start_idx, result_idx, 'left', 'right', 'comparing', current_step) are *)
(* kept 0-based as in the source; list position p of the source is         *)
(* position p + 1 of the sequence.                                         *)
(***************************************************************************)
EXTENDS Integers, Sequences, FiniteSets, TLC

VARIABLES input,          \* the list handed to the recorder (original_array, line 394)
          array,          \* visualizer.array
          steps,          \* visualizer.steps
          has_array,      \* the attribute visualizer.array has been assigned
          has_steps,      \* the attribute visualizer.steps has been assigned
          array_created,  \* st.session_state.array_created
          sorting_done,   \* st.session_state.sorting_done
          current_step,   \* st.session_state.current_step
          is_playing,     \* st.session_state.is_playing
          pc,             \* where the running script is
          view,           \* the step drawn last by create_visualization in this run
          op              \* the interaction that started the latest transition

vars == <<input, array, steps, has_array, has_steps, array_created,
          sorting_done, current_step, is_playing, pc, view, op>>

\* ------------------------------------------------------------------------
\* Bounds of the model
\* ------------------------------------------------------------------------
\* longest input handed to the recorder in SpecSort
MaxLen == 4
\* inputs of the recorder in SpecSort take their values in 1..MaxVal
MaxVal == 3
\* largest "Number of Elements" offered in the session (the widget allows 20)
NodesBound == 2

\* ------------------------------------------------------------------------
\* Program constants
\* ------------------------------------------------------------------------
\* min_value of the "Number of Elements" input
MinNodes == 2
\* lower end of random.randint(1, 100)
MinRandom == 1

\* line 377: the arrays "Generate Random Array" draws, two of each length:
\* one of equal values, which the recorder leaves in place, and one whose
\* first value is the larger, which it reorders.  The session never looks
\* at a value outside the recorder, whose inputs SpecSort draws from
\* 1..MaxVal
RandomArrays(num_nodes) ==
    {[p \in 1..num_nodes |-> MinRandom],
     [p \in 1..num_nodes |-> IF p = 1 THEN MinRandom + 1 ELSE MinRandom]}

\* ------------------------------------------------------------------------
\* Python helpers
\* ------------------------------------------------------------------------
\* lst[idx] = v on a Python list (0-based idx)
SetAt(lst, idx, v) == [lst EXCEPT ![idx + 1] = v]

\* lst[idx] on a Python list (0-based idx)
At(lst, idx) == lst[idx + 1]

\* dict.get(field, default)
Get(d, field, default) == IF field \in DOMAIN d THEN d[field] ELSE default

\* [base + i for i in range(n)]
RangeFrom(base, n) == [p \in 1..n |-> base + p - 1]

\* ------------------------------------------------------------------------
\* The recorder.  `self` is the pair of attributes the two methods use,
\* [array |-> self.array, steps |-> self.steps].  `key` maps an element to
\* the value Python's `<=` compares it by: the identity for the integers of
\* the application, the sort key for elements that carry a provenance tag.
\* ------------------------------------------------------------------------

\* mutant of TakeLeft: the comparison turned round
TakeLeft_reversed(key, l, r) == key[l] >= key[r]

\* mutant of TakeLeft: ties go to the right list
TakeLeft_strict(key, l, r) == key[l] < key[r]

\* line 122: the stable-left test of the merge
TakeLeft(key, l, r) == key[l] <= key[r]

\* mutant of SplitStep: the two halves are numbered from 0, without start_idx
SplitStep_nooffset(self, arr, mid, start_idx, level) ==
    [type        |-> "split",
     array       |-> self.array,
     left        |-> RangeFrom(0, mid),
     right       |-> RangeFrom(mid, Len(arr) - mid),
     level       |-> level,
     description |-> <<"Splitting array at position", mid>>]

\* lines 97-104: the split step, appended before the recursive calls
SplitStep(self, arr, mid, start_idx, level) ==
    [type        |-> "split",
     array       |-> self.array,
     left        |-> RangeFrom(start_idx, mid),
     right       |-> RangeFrom(start_idx + mid, Len(arr) - mid),
     level       |-> level,
     description |-> <<"Splitting array at position", mid>>]

\* mutant of CompareStep: 'comparing' names result_idx after its increment
CompareStep_offbyone(self, result, start_idx, result_idx, level) ==
    [type        |-> "merge",
     array       |-> self.array,
     comparing   |-> <<result_idx>>,
     level       |-> level,
     description |-> <<"Merging: placed", result[Len(result)],
                       "at position", result_idx - 1>>]

\* lines 134-140: the merge step of the compare loop; result already holds
\* the value just placed and result_idx is already incremented
CompareStep(self, result, start_idx, result_idx, level) ==
    [type        |-> "merge",
     array       |-> self.array,
     comparing   |-> <<start_idx + Len(result) - 1>>,
     level       |-> level,
     description |-> <<"Merging: placed", result[Len(result)],
                       "at position", result_idx - 1>>]

\* lines 146-152 and 159-165: the merge step of a drain loop; result_idx is
\* not yet incremented
DrainStep(self, v, result_idx, level) ==
    [type        |-> "merge",
     array       |-> self.array,
     comparing   |-> <<result_idx>>,
     level       |-> level,
     description |-> <<"Adding remaining element", v>>]

\* mutant of CompareBody: the value is written at its index within result,
\* not at result_idx
CompareBody_localindex(key, left, right, start_idx, level, m) ==
    LET fromLeft == TakeLeft(key, At(left, m.i), At(right, m.j))
        v        == IF fromLeft THEN At(left, m.i) ELSE At(right, m.j)
        result   == Append(m.result, v)
        written  == [m.self EXCEPT !.array = SetAt(@, Len(m.result), v)]
        ridx     == m.result_idx + 1
    IN  [self       |-> [written EXCEPT !.steps =
                            Append(@, CompareStep(written, result, start_idx,
                                                  ridx, level))],
         result     |-> result,
         i          |-> IF fromLeft THEN m.i + 1 ELSE m.i,
         j          |-> IF fromLeft THEN m.j ELSE m.j + 1,
         result_idx |-> ridx]

\* lines 121-140: one iteration of `while i < len(left) and j < len(right)`
\* m = [self, result, i, j, result_idx]
CompareBody(key, left, right, start_idx, level, m) ==
    LET fromLeft == TakeLeft(key, At(left, m.i), At(right, m.j))
        v        == IF fromLeft THEN At(left, m.i) ELSE At(right, m.j)
        result   == Append(m.result, v)
        written  == [m.self EXCEPT !.array = SetAt(@, m.result_idx, v)]
        ridx     == m.result_idx + 1
    IN  [self       |-> [written EXCEPT !.steps =
                            Append(@, CompareStep(written, result, start_idx,
                                                  ridx, level))],
         result     |-> result,
         i          |-> IF fromLeft THEN m.i + 1 ELSE m.i,
         j          |-> IF fromLeft THEN m.j ELSE m.j + 1,
         result_idx |-> ridx]

\* mutant of DrainLeftBody: the element is appended to result but not
\* written into self.array
DrainLeftBody_nowrite(left, level, m) ==
    LET v == At(left, m.i)
    IN  [self       |-> [m.self EXCEPT !.steps =
                            Append(@, DrainStep(m.self, v, m.result_idx, level))],
         result     |-> Append(m.result, v),
         i          |-> m.i + 1,
         j          |-> m.j,
         result_idx |-> m.result_idx + 1]

\* lines 143-154: one iteration of `while i < len(left)`
DrainLeftBody(left, level, m) ==
    LET v       == At(left, m.i)
        written == [m.self EXCEPT !.array = SetAt(@, m.result_idx, v)]
    IN  [self       |-> [written EXCEPT !.steps =
                            Append(@, DrainStep(written, v, m.result_idx, level))],
         result     |-> Append(m.result, v),
         i          |-> m.i + 1,
         j          |-> m.j,
         result_idx |-> m.result_idx + 1]

\* mutant of DrainRightBody: the element is written but no step is recorded
DrainRightBody_nostep(right, level, m) ==
    LET v       == At(right, m.j)
        written == [m.self EXCEPT !.array = SetAt(@, m.result_idx, v)]
    IN  [self       |-> written,
         result     |-> Append(m.result, v),
         i          |-> m.i,
         j          |-> m.j + 1,
         result_idx |-> m.result_idx + 1]

\* lines 156-167: one iteration of `while j < len(right)`
DrainRightBody(right, level, m) ==
    LET v       == At(right, m.j)
        written == [m.self EXCEPT !.array = SetAt(@, m.result_idx, v)]
    IN  [self       |-> [written EXCEPT !.steps =
                            Append(@, DrainStep(written, v, m.result_idx, level))],
         result     |-> Append(m.result, v),
         i          |-> m.i,
         j          |-> m.j + 1,
         result_idx |-> m.result_idx + 1]

RECURSIVE CompareLoop(_, _, _, _, _, _)
\* lines 121-140: the compare loop
CompareLoop(key, left, right, start_idx, level, m) ==
    IF m.i < Len(left) /\ m.j < Len(right)
    THEN CompareLoop(key, left, right, start_idx, level,
                     CompareBody(key, left, right, start_idx, level, m))
    ELSE m

RECURSIVE DrainLeftLoop(_, _, _)
\* lines 143-154: drain of the left list
DrainLeftLoop(left, level, m) ==
    IF m.i < Len(left)
    THEN DrainLeftLoop(left, level, DrainLeftBody(left, level, m))
    ELSE m

RECURSIVE DrainRightLoop(_, _, _)
\* lines 156-167: drain of the right list
DrainRightLoop(right, level, m) ==
    IF m.j < Len(right)
    THEN DrainRightLoop(right, level, DrainRightBody(right, level, m))
    ELSE m

\* lines 115-169: merge_with_steps; returns [ret |-> result, self |-> self]
merge_with_steps(key, self, left, right, start_idx, level) ==
    LET m0 == [self |-> self, result |-> <<>>, i |-> 0, j |-> 0,
               result_idx |-> start_idx]
        m1 == CompareLoop(key, left, right, start_idx, level, m0)
        m2 == DrainLeftLoop(left, level, m1)
        m3 == DrainRightLoop(right, level, m2)
    IN  [ret |-> m3.result, self |-> m3.self]

RECURSIVE merge_sort_with_steps(_, _, _, _, _)
\* mutant of merge_sort_with_steps: the right half is sorted before the left
merge_sort_with_steps_rightfirst(key, self, arr, start_idx, level) ==
    IF Len(arr) <= 1
    THEN [ret |-> arr, self |-> self]
    ELSE LET mid        == Len(arr) \div 2
             left_part  == SubSeq(arr, 1, mid)
             right_part == SubSeq(arr, mid + 1, Len(arr))
             split      == [self EXCEPT !.steps =
                               Append(@, SplitStep(self, arr, mid, start_idx, level))]
             r == merge_sort_with_steps(key, split, right_part,
                                        start_idx + mid, level + 1)
             l == merge_sort_with_steps(key, r.self, left_part, start_idx, level + 1)
         IN  merge_with_steps(key, l.self, l.ret, r.ret, start_idx, level)

\* mutant of merge_sort_with_steps: the split step is recorded after the
\* left half is sorted
merge_sort_with_steps_latesplit(key, self, arr, start_idx, level) ==
    IF Len(arr) <= 1
    THEN [ret |-> arr, self |-> self]
    ELSE LET mid        == Len(arr) \div 2
             left_part  == SubSeq(arr, 1, mid)
             right_part == SubSeq(arr, mid + 1, Len(arr))
             l == merge_sort_with_steps(key, self, left_part, start_idx, level + 1)
             split      == [l.self EXCEPT !.steps =
                               Append(@, SplitStep(l.self, arr, mid, start_idx, level))]
             r == merge_sort_with_steps(key, split, right_part,
                                        start_idx + mid, level + 1)
         IN  merge_with_steps(key, r.self, l.ret, r.ret, start_idx, level)

\* mutant of merge_sort_with_steps: the split step is recorded before the
\* length of arr is looked at
merge_sort_with_steps_earlysplit(key, self, arr, start_idx, level) ==
    LET mid        == Len(arr) \div 2
        left_part  == SubSeq(arr, 1, mid)
        right_part == SubSeq(arr, mid + 1, Len(arr))
        split      == [self EXCEPT !.steps =
                          Append(@, SplitStep(self, arr, mid, start_idx, level))]
        l == merge_sort_with_steps(key, split, left_part, start_idx, level + 1)
        r == merge_sort_with_steps(key, l.self, right_part,
                                   start_idx + mid, level + 1)
    IN  IF Len(arr) <= 1
        THEN [ret |-> arr, self |-> split]
        ELSE merge_with_steps(key, r.self, l.ret, r.ret, start_idx, level)

\* lines 87-113: merge_sort_with_steps; returns [ret |-> merged, self |-> self]
merge_sort_with_steps(key, self, arr, start_idx, level) ==
    IF Len(arr) <= 1
    THEN [ret |-> arr, self |-> self]
    ELSE LET mid        == Len(arr) \div 2
             left_part  == SubSeq(arr, 1, mid)
             right_part == SubSeq(arr, mid + 1, Len(arr))
             split      == [self EXCEPT !.steps =
                               Append(@, SplitStep(self, arr, mid, start_idx, level))]
             l == merge_sort_with_steps(key, split, left_part, start_idx, level + 1)
             r == merge_sort_with_steps(key, l.self, right_part,
                                        start_idx + mid, level + 1)
         IN  merge_with_steps(key, r.self, l.ret, r.ret, start_idx, level)

\* ------------------------------------------------------------------------
\* SpecSort: the recorder applied to every bounded input
\* ------------------------------------------------------------------------
\* Python's `<=` on the integers of the application
IntKey == [v \in Int |-> v]

\* elements that carry their original index as provenance tag: the element
\* is the tag, and it is compared by the value the input holds there
TagKey(inp) == [t \in 0..(Len(inp) - 1) |-> At(inp, t)]

SeqsUpTo(S, lo, hi) == UNION {[1..n -> S] : n \in lo..hi}

\* the worked example of the sorting scenario
Scenario == <<5, 3, 8, 1>>

SortInputs == SeqsUpTo(1..MaxVal, 0, MaxLen) \cup {Scenario}

NoView == [type |-> "none"]

InitSort ==
    /\ input \in SortInputs
    /\ array = input
    /\ steps = <<>>
    /\ has_array = TRUE
    /\ has_steps = TRUE
    /\ array_created = TRUE
    /\ sorting_done = FALSE
    /\ current_step = 0
    /\ is_playing = FALSE
    /\ pc = "ready"
    /\ view = NoView
    /\ op = [name |-> "Init"]

\* lines 393-395 as the Start handler runs them: self.array holds the input,
\* self.steps is empty, and the recorder gets a copy of the input
Record ==
    /\ pc = "ready"
    /\ LET out == merge_sort_with_steps(IntKey, [array |-> array, steps |-> <<>>],
                                        input, 0, 0)
       IN  /\ array' = out.self.array
           /\ steps' = out.self.steps
    /\ pc' = "recorded"
    /\ op' = [name |-> "Record"]
    /\ UNCHANGED <<input, has_array, has_steps, array_created, sorting_done,
                   current_step, is_playing, view>>

\* the same call on elements tagged with their original index 0..n-1 and
\* compared on the value only
RecordTagged ==
    /\ pc = "ready"
    /\ LET tags == RangeFrom(0, Len(input))
           out  == merge_sort_with_steps(TagKey(input),
                                         [array |-> tags, steps |-> <<>>],
                                         tags, 0, 0)
       IN  /\ array' = out.self.array
           /\ steps' = out.self.steps
    /\ pc' = "tagged"
    /\ op' = [name |-> "RecordTagged"]
    /\ UNCHANGED <<input, has_array, has_steps, array_created, sorting_done,
                   current_step, is_playing, view>>

NextSort == Record \/ RecordTagged

SpecSort == InitSort /\ [][NextSort]_vars

\* ------------------------------------------------------------------------
\* Spec: the session of main().  A user interaction starts one run of the
\* script.  When the next interaction arrives Streamlit stops the run at
\* its next access to st.session_state or its next element call, before
\* that access or call takes place, and starts the new run on the state
\* the stopped run left.  So every statement that writes the session is a
\* step of its own, and pc names what the running script does next:
\*   - "idle": the script has ended; "loop": it sleeps in the auto-play
\*     loop (line 502);
\*   - "install_created" .. "install_playing", "start_record" ..
\*     "start_playing", "reset_done" .. "reset_visualizer", "nav_playing",
\*     "loop_end": the next statement of a handler, or of the loop's end
\*     (lines 504-505), is still to run (HandlerStep);
\*   - "pending": the handlers are done and the run (for Previous, Next and
\*     Reset the run st.rerun() starts) is on its way through the main
\*     column (Render).  There the slider's value is stored (line 472), the
\*     'previous_step' entry is stored (lines 489, 516) and the chart is
\*     drawn (lines 499, 524), each after a stop point: Render goes to the
\*     next of them that changes the session or the page.
\* A run whose handlers write nothing starts in the main column at once.
\* session_state and the visualizer outlive the runs.
\* ------------------------------------------------------------------------

\* lines 196-212: what add_step_visualization reads of a step
StepCore(step) ==
    [type      |-> step.type,
     array     |-> step.array,
     left      |-> Get(step, "left", <<>>),
     right     |-> Get(step, "right", <<>>),
     comparing |-> Get(step, "comparing", <<>>)]

\* lines 256-258: create_visualization(step_data, show_previous=True) draws
\* step_data and, when it holds a 'previous_step', that step below it.
\* 'previous_step' is a reference to an entry of the steps list, held here
\* as the 0-based position of that entry.
Drawn(stps, cs) ==
    LET step_data == At(stps, cs)
    IN  [step     |-> StepCore(step_data),
         previous |-> IF "previous_step" \in DOMAIN step_data
                      THEN StepCore(At(stps, step_data.previous_step))
                      ELSE NoView]

\* lines 418-428: the drawing of the array before it is sorted
DrawnInitial(arr) ==
    [step     |-> [type |-> "initial", array |-> arr, left |-> <<>>,
                   right |-> <<>>, comparing |-> <<>>],
     previous |-> NoView]

\* lines 488-489 and 515-516:
\*   if current_step > 0: current_step_data['previous_step'] = steps[current_step - 1]
\* current_step_data is the dict steps[current_step] itself, so the
\* assignment changes the entry of the list
WithPrevious(stps, cs) ==
    IF cs > 0
    THEN [stps EXCEPT ![cs + 1] = ("previous_step" :> (cs - 1)) @@ @]
    ELSE stps

\* lines 512-527: "Show current step", as far as the run is sure to go:
\* st.plotly_chart (line 524) is a stop point between the store of
\* 'previous_step' (line 516) and the chart, so a run that stores a new
\* entry goes to the store and the chart on the page stays (pc =
\* "pending"); a run whose step holds its entry already, or is step 0,
\* goes on to the chart and the end of the script.  Nothing is drawn when
\* the cursor is outside the list.
ShowStep(stps, cs, shown) ==
    IF 0 <= cs /\ cs < Len(stps)
    THEN IF WithPrevious(stps, cs) # stps
         THEN [steps |-> WithPrevious(stps, cs), pc |-> "pending",
               view |-> shown]
         ELSE [steps |-> stps, pc |-> "idle", view |-> Drawn(stps, cs)]
    ELSE [steps |-> stps, pc |-> "idle", view |-> shown]

\* lines 486-527 from the head of the while loop, as far as the run is sure
\* to go.  In the body the element call of line 491 lies between the store
\* of 'previous_step' (line 489) and the chart (lines 493-499): a body that
\* stores a new entry goes to the store, and the chart on the page stays
\* (pc = "pending"); a body whose step holds its entry already, or is
\* step 0, goes on to the chart and the sleep.  When the loop is left, or
\* not entered, "Show current step" follows.
LoopHead(stps, cs, playing, shown) ==
    IF playing /\ cs < Len(stps)
    THEN IF WithPrevious(stps, cs) # stps
         THEN [steps |-> WithPrevious(stps, cs), current_step |-> cs,
               is_playing |-> playing, pc |-> "pending", view |-> shown]
         ELSE [steps |-> stps, current_step |-> cs,
               is_playing |-> playing, pc |-> "loop",
               view |-> Drawn(stps, cs)]
    ELSE LET out == ShowStep(stps, cs, shown)
         IN  [steps |-> out.steps, current_step |-> cs,
              is_playing |-> playing, pc |-> out.pc, view |-> out.view]

\* mutant of MainColumn: the value of the slider is not stored
MainColumn_noslider(created, done, arr, stps, cs, playing, slider) ==
    IF ~created
    THEN [steps |-> stps, current_step |-> cs, is_playing |-> playing,
          pc |-> "idle", view |-> NoView]
    ELSE IF ~done
    THEN [steps |-> stps, current_step |-> cs, is_playing |-> playing,
          pc |-> "idle", view |-> DrawnInitial(arr)]
    ELSE IF stps = <<>>
    THEN [steps |-> stps, current_step |-> cs, is_playing |-> playing,
          pc |-> "idle", view |-> NoView]
    ELSE LoopHead(stps, cs, playing, NoView)

\* lines 409-556: the main column of one run, after the sidebar handlers,
\* as far as the run is sure to go; slider is the value st.slider returns
\* at line 472: the position the user dragged it to, or its default,
\* current_step.  A dragged position is stored in current_step, and the
\* reads of st.session_state that follow are stop points (pc = "pending")
MainColumn(created, done, arr, stps, cs, playing, slider) ==
    IF ~created
    THEN [steps |-> stps, current_step |-> cs, is_playing |-> playing,
          pc |-> "idle", view |-> NoView]
    ELSE IF ~done
    THEN [steps |-> stps, current_step |-> cs, is_playing |-> playing,
          pc |-> "idle", view |-> DrawnInitial(arr)]
    ELSE IF stps = <<>>
    THEN [steps |-> stps, current_step |-> cs, is_playing |-> playing,
          pc |-> "idle", view |-> NoView]
    ELSE IF slider # cs
    THEN [steps |-> stps, current_step |-> slider, is_playing |-> playing,
          pc |-> "pending", view |-> NoView]
    ELSE LoopHead(stps, cs, playing, NoView)

\* the variables a run's main column leaves behind; a run that has not
\* reached its chart leaves the chart of the page
Finish(out) ==
    /\ steps' = out.steps
    /\ current_step' = out.current_step
    /\ is_playing' = out.is_playing
    /\ pc' = out.pc
    /\ view' = IF out.pc = "pending" THEN view ELSE out.view

\* what the session and the visualizer hold when an interaction arrives
Before ==
    [array |-> array, has_array |-> has_array, array_created |-> array_created,
     sorting_done |-> sorting_done, steps |-> steps, has_steps |-> has_steps,
     current_step |-> current_step, is_playing |-> is_playing]

\* the record of a playback intent: its name and the cursor it found
PlaybackOp(name) == [name |-> name, from |-> current_step]

\* the statements of the handlers that are still to run, by handler
InstallPcs == {"install_created", "install_done", "install_cursor",
               "install_playing"}

StartPcs == {"start_record", "start_done", "start_cursor", "start_playing"}

ResetPcs == {"reset_done", "reset_cursor", "reset_playing", "reset_visualizer"}

HandlerPcs == InstallPcs \cup StartPcs \cup ResetPcs \cup {"nav_playing", "loop_end"}

\* the statements of the latest interaction's handler have all run
Settled == pc \in {"idle", "loop", "pending"}

\* an interaction can arrive wherever the script is: Streamlit stops the
\* run at its next stop point and starts the new one
Interactive == pc \in HandlerPcs \cup {"idle", "loop", "pending"}

\* one statement of a handler has run and pc names the next one; nothing
\* else changes
Goto(next) ==
    /\ pc' = next
    /\ view' = view

\* the playback buttons and the step slider are on the page (lines 412-434)
ControlsShown == array_created /\ sorting_done /\ has_steps /\ steps # <<>>

Init ==
    /\ input = <<>>
    /\ array = <<>>
    /\ steps = <<>>
    /\ has_array = FALSE
    /\ has_steps = FALSE
    /\ array_created = FALSE
    /\ sorting_done = FALSE
    /\ current_step = 0
    /\ is_playing = FALSE
    /\ pc = "idle"
    /\ view = NoView
    /\ op = [name |-> "Init"]

\* a field of the text input: int(x.strip()) succeeds with val, or raises
\* ValueError.  One integer is typed: the arrays of differing values are
\* installed by "Generate Random Array", through the same assignments
Tokens == [ok : {TRUE}, val : {MinRandom}] \cup {[ok |-> FALSE, val |-> 0]}

\* the fields int() accepts
Fields == {t \in Tokens : t.ok}

\* the text of the input split at the commas: the text that is empty after
\* strip(), <<>>; every text of 1 to NodesBound integers; and the texts
\* of one or two fields whose last field is no integer
Texts ==
    {<<>>} \cup SeqsUpTo(Fields, 1, NodesBound)
           \cup {Append(t, f) : t \in SeqsUpTo(Fields, 0, 1), f \in Tokens \ Fields}

\* line 360: [int(x.strip()) for x in array_input.split(',')]
ParseValues(text) == [p \in 1..Len(text) |-> text[p].val]

\* lines 358-373: is the text turned into an array
Accepted(text, num_nodes) ==
    /\ text # <<>>
    /\ \A p \in 1..Len(text) : text[p].ok
    /\ Len(ParseValues(text)) = num_nodes

\* lines 358-373: what "Create Array" does with the text: the empty text is
\* refused first (line 359), then a field that is no integer (ValueError
\* raised at line 360), then a wrong number of values (line 361)
Outcome(text, num_nodes) ==
    IF text = <<>> THEN "empty"
    ELSE IF \E p \in 1..Len(text) : ~text[p].ok THEN "malformed"
    ELSE IF Len(ParseValues(text)) # num_nodes THEN "count"
    ELSE "installed"

\* the record of a sidebar interaction: its name, what it did, and whether
\* it found the playback away from its initial state (cursor 0, paused)
SidebarOp(name, outcome) ==
    [name |-> name, outcome |-> outcome,
     moved |-> (current_step # 0 \/ is_playing)]

\* lines 364 and 378: st.session_state.visualizer.array = values, the first
\* statement of an installation; lines 365-368 and 379-382 follow, each
\* after a stop point
InstallArray(values) ==
    /\ array' = values
    /\ has_array' = TRUE
    /\ Goto("install_created")
    /\ UNCHANGED <<input, steps, has_steps, array_created, sorting_done,
                   current_step, is_playing>>

\* a run none of whose handlers writes the session
NoHandler ==
    /\ Finish(MainColumn(array_created, sorting_done, array, steps,
                         current_step, is_playing, current_step))
    /\ UNCHANGED <<input, array, has_array, has_steps, array_created, sorting_done>>

\* lines 357-373: "Create Array"
CreateArray(num_nodes, text) ==
    /\ Interactive
    /\ op' = IF Outcome(text, num_nodes) = "installed"
             THEN SidebarOp("CreateArray", Outcome(text, num_nodes))
             ELSE [name |-> "CreateArray", outcome |-> Outcome(text, num_nodes),
                   moved |-> (current_step # 0 \/ is_playing),
                   before |-> Before]
    /\ IF Accepted(text, num_nodes)
       THEN InstallArray(ParseValues(text))
       ELSE NoHandler

\* lines 376-383: "Generate Random Array"
GenerateRandom(random_values) ==
    /\ Interactive
    /\ op' = SidebarOp("GenerateRandom", "installed")
    /\ InstallArray(random_values)

\* mutant of StartMergeSort: the steps list is not emptied before the run
StartMergeSort_append ==
    /\ Interactive
    /\ array_created
    /\ op' = IF ~sorting_done
             THEN [name     |-> "StartMergeSort",
                   recorded |-> TRUE,
                   replaced |-> has_steps /\ steps # <<>>]
             ELSE [name     |-> "StartMergeSort",
                   recorded |-> FALSE,
                   replaced |-> has_steps /\ steps # <<>>,
                   before   |-> Before]
    /\ IF ~sorting_done
       THEN /\ steps' = IF has_steps THEN steps ELSE <<>>
            /\ has_steps' = TRUE
            /\ Goto("start_record")
            /\ UNCHANGED <<input, array, has_array, array_created,
                           sorting_done, current_step, is_playing>>
       ELSE NoHandler

\* lines 390-399: "Start Merge Sort".  Line 391 lets the handler run only
\* while sorting_done is false; line 393, visualizer.steps = [], is its
\* first statement, and lines 394-398 follow, each after a stop point
StartMergeSort ==
    /\ Interactive
    /\ array_created
    /\ op' = IF ~sorting_done
             THEN [name     |-> "StartMergeSort",
                   recorded |-> TRUE,
                   replaced |-> has_steps /\ steps # <<>>]
             ELSE [name     |-> "StartMergeSort",
                   recorded |-> FALSE,
                   replaced |-> has_steps /\ steps # <<>>,
                   before   |-> Before]
    /\ IF ~sorting_done
       THEN /\ steps' = <<>>
            /\ has_steps' = TRUE
            /\ Goto("start_record")
            /\ UNCHANGED <<input, array, has_array, array_created,
                           sorting_done, current_step, is_playing>>
       ELSE NoHandler

\* lines 401-407: "Reset".  Line 402, array_created = False, is its first
\* statement; lines 403-406 follow, each after a stop point
Reset ==
    /\ Interactive
    /\ array_created
    /\ op' = SidebarOp("Reset", "reset")
    /\ array_created' = FALSE
    /\ Goto("reset_done")
    /\ UNCHANGED <<input, array, steps, has_array, has_steps, sorting_done,
                   current_step, is_playing>>

\* lines 438-443: "<-Previous".  Line 441 moves the cursor; line 442,
\* is_playing = False, follows after a stop point
Previous ==
    /\ Interactive
    /\ ControlsShown
    /\ op' = PlaybackOp("Previous")
    /\ IF current_step > 0
       THEN /\ current_step' = current_step - 1
            /\ Goto("nav_playing")
            /\ UNCHANGED <<input, array, steps, has_array, has_steps,
                           array_created, sorting_done, is_playing>>
       ELSE NoHandler

\* lines 445-447: "Play" / "Resume"
Play ==
    /\ Interactive
    /\ ControlsShown
    /\ op' = [name |-> "Play", from |-> current_step, was_playing |-> is_playing]
    /\ is_playing' = TRUE
    /\ Goto("pending")
    /\ UNCHANGED <<input, array, steps, has_array, has_steps, array_created,
                   sorting_done, current_step>>

\* lines 449-451: "Pause"
Pause ==
    /\ Interactive
    /\ ControlsShown
    /\ op' = PlaybackOp("Pause")
    /\ is_playing' = FALSE
    /\ Goto("pending")
    /\ UNCHANGED <<input, array, steps, has_array, has_steps, array_created,
                   sorting_done, current_step>>

\* lines 453-458: "Next->".  Line 456 moves the cursor; line 457,
\* is_playing = False, follows after a stop point
NextStep ==
    /\ Interactive
    /\ ControlsShown
    /\ op' = PlaybackOp("Next")
    /\ IF current_step < Len(steps) - 1
       THEN /\ current_step' = current_step + 1
            /\ Goto("nav_playing")
            /\ UNCHANGED <<input, array, steps, has_array, has_steps,
                           array_created, sorting_done, is_playing>>
       ELSE NoHandler

\* lines 472-478: the step slider dragged to k; no handler has run, and the
\* main column stores k in current_step
SeekTo(k) ==
    /\ Interactive
    /\ ControlsShown
    /\ k \in 0..(Len(steps) - 1)
    /\ op' = [name |-> "SeekTo", k |-> k, was_playing |-> is_playing,
              steps_before |-> steps]
    /\ Finish(MainColumn(array_created, sorting_done, array, steps,
                         current_step, is_playing, k))
    /\ UNCHANGED <<input, array, has_array, has_steps, array_created, sorting_done>>

\* the step slider dragged to any of its positions 0..len(steps)-1
Seek == \E k \in 0..(Len(steps) - 1) : SeekTo(k)

\* a widget without handler changes (number of elements, visualization
\* types, input method, speed): the script runs again.  The record keeps
\* where the run it stops was
Rerun ==
    /\ Interactive
    /\ op' = [name |-> "Rerun", stopped |-> pc]
    /\ NoHandler

\* lines 365-368 and 379-382: the statements of an installation after the
\* first
InstallStep ==
    /\ pc \in InstallPcs
    /\ array_created' = IF pc = "install_created" THEN TRUE ELSE array_created
    /\ sorting_done' = IF pc = "install_done" THEN FALSE ELSE sorting_done
    /\ current_step' = IF pc = "install_cursor" THEN 0 ELSE current_step
    /\ is_playing' = IF pc = "install_playing" THEN FALSE ELSE is_playing
    /\ Goto(CASE pc = "install_created" -> "install_done"
              [] pc = "install_done"    -> "install_cursor"
              [] pc = "install_cursor"  -> "install_playing"
              [] pc = "install_playing" -> "pending")
    /\ UNCHANGED <<input, array, steps, has_array, has_steps, op>>

\* lines 394-395: original_array = visualizer.array.copy() and the run of
\* the recorder, which appends to visualizer.steps and sorts
\* visualizer.array in place; the recorder touches no st.session_state
RecordTrace ==
    /\ pc = "start_record"
    /\ LET out == merge_sort_with_steps(IntKey,
                      [array |-> array, steps |-> steps], array, 0, 0)
       IN  /\ input' = array
           /\ array' = out.self.array
           /\ steps' = out.self.steps
    /\ Goto("start_done")
    /\ UNCHANGED <<has_array, has_steps, array_created, sorting_done,
                   current_step, is_playing, op>>

\* lines 396-398: the statements of "Start Merge Sort" after the recorder
StartStep ==
    /\ pc \in StartPcs \ {"start_record"}
    /\ sorting_done' = IF pc = "start_done" THEN TRUE ELSE sorting_done
    /\ current_step' = IF pc = "start_cursor" THEN 0 ELSE current_step
    /\ is_playing' = IF pc = "start_playing" THEN FALSE ELSE is_playing
    /\ Goto(CASE pc = "start_done"    -> "start_cursor"
              [] pc = "start_cursor"  -> "start_playing"
              [] pc = "start_playing" -> "pending")
    /\ UNCHANGED <<input, array, steps, has_array, has_steps, array_created, op>>

\* lines 403-407: the statements of "Reset" after the first; the new
\* MergeSortVisualizer of line 406 has no attributes, and st.rerun() starts
\* the run that draws the welcome page
ResetStep ==
    /\ pc \in ResetPcs
    /\ sorting_done' = IF pc = "reset_done" THEN FALSE ELSE sorting_done
    /\ current_step' = IF pc = "reset_cursor" THEN 0 ELSE current_step
    /\ is_playing' = IF pc = "reset_playing" THEN FALSE ELSE is_playing
    /\ array' = IF pc = "reset_visualizer" THEN <<>> ELSE array
    /\ steps' = IF pc = "reset_visualizer" THEN <<>> ELSE steps
    /\ has_array' = IF pc = "reset_visualizer" THEN FALSE ELSE has_array
    /\ has_steps' = IF pc = "reset_visualizer" THEN FALSE ELSE has_steps
    /\ Goto(CASE pc = "reset_done"       -> "reset_cursor"
              [] pc = "reset_cursor"     -> "reset_playing"
              [] pc = "reset_playing"    -> "reset_visualizer"
              [] pc = "reset_visualizer" -> "pending")
    /\ UNCHANGED <<input, array_created, op>>

\* lines 442-443 and 457-458: is_playing = False after the cursor has
\* moved, and st.rerun()
NavStep ==
    /\ pc = "nav_playing"
    /\ is_playing' = FALSE
    /\ Goto("pending")
    /\ UNCHANGED <<input, array, steps, has_array, has_steps, array_created,
                   sorting_done, current_step, op>>

\* lines 504-507: the cursor has passed the last step; is_playing = False,
\* the loop is left and the run goes to its end with the chart it drew
LoopEnd ==
    /\ pc = "loop_end"
    /\ is_playing' = FALSE
    /\ Goto("idle")
    /\ UNCHANGED <<input, array, steps, has_array, has_steps, array_created,
                   sorting_done, current_step, op>>

\* the next statement of a handler whose run has not been stopped
HandlerStep == InstallStep \/ RecordTrace \/ StartStep \/ ResetStep \/ NavStep \/ LoopEnd

\* lines 409-533: the run goes on unstopped to its next stop in the main
\* column: the slider returns its default, current_step; the loop body or
\* "Show current step" stores a new 'previous_step' (the run is still
\* pending, at line 491 or 524) or, the entry stored, draws
Render ==
    /\ pc = "pending"
    /\ Finish(MainColumn(array_created, sorting_done, array, steps,
                         current_step, is_playing, current_step))
    /\ UNCHANGED <<input, array, has_array, has_steps, array_created,
                   sorting_done, op>>

\* lines 502-503: the sleep of the auto-play loop ends and the cursor
\* advances.  The test of line 504 and the head of the loop read
\* st.session_state: past the last step is_playing = False is still to
\* run, otherwise the body of the loop, which is Render
Tick ==
    /\ pc = "loop"
    /\ op' = PlaybackOp("Tick")
    /\ current_step' = current_step + 1
    /\ Goto(IF current_step + 1 >= Len(steps) THEN "loop_end" ELSE "pending")
    /\ UNCHANGED <<input, array, steps, has_array, has_steps, array_created,
                   sorting_done, is_playing>>

\* the interactions of the user
Intent ==
    \/ \E num_nodes \in MinNodes..NodesBound, text \in Texts :
          CreateArray(num_nodes, text)
    \/ \E num_nodes \in MinNodes..NodesBound :
          \E random_values \in RandomArrays(num_nodes) :
             GenerateRandom(random_values)
    \/ StartMergeSort
    \/ Reset
    \/ Previous
    \/ Play
    \/ Pause
    \/ NextStep
    \/ Seek
    \/ Rerun

Next == Intent \/ HandlerStep \/ Render \/ Tick

Spec == Init /\ [][Next]_vars

\* ------------------------------------------------------------------------
\* SpecAuto: the session of a user who leaves a started auto-play alone.
\* Interactions arrive only while is_playing is false; the script is
\* ordinary sequential code, so a playing run, which nothing stops, goes
\* on: to its drawing (weak fairness of Render), to the next iteration of
\* the loop (weak fairness of Tick), and out of the loop past the last
\* step (weak fairness of LoopEnd).
\* ------------------------------------------------------------------------
\* an interaction arriving while nothing is being played
QuietIntent == ~is_playing /\ Intent

NextAuto == QuietIntent \/ HandlerStep \/ Render \/ Tick

SpecAuto ==
    Init /\ [][NextAuto]_vars
         /\ WF_vars(Render) /\ WF_vars(Tick) /\ WF_vars(LoopEnd)

\* ------------------------------------------------------------------------
\* Properties of the recorder (SpecSort)
\* ------------------------------------------------------------------------
NonDecreasing(a) == \A p \in 1..(Len(a) - 1) : a[p] <= a[p + 1]

Count(a, v) == Cardinality({p \in 1..Len(a) : a[p] = v})

Elems(a) == {a[p] : p \in 1..Len(a)}

SameMultiset(a, b) ==
    /\ Len(a) = Len(b)
    /\ \A v \in Elems(a) \cup Elems(b) : Count(a, v) = Count(b, v)

LastStep == steps[Len(steps)]

\* C1 (sortedness): for every input of at least 2 elements, the 'array'
\* snapshot of the last step recorded by merge_sort_with_steps is
\* non-decreasing.
C1_Sortedness ==
    (pc = "recorded" /\ Len(input) >= 2) =>
        (Len(steps) > 0 /\ NonDecreasing(LastStep.array))

C1_Witness ==
    /\ pc = "recorded"
    /\ input = <<3, 1, 2, 1>>
    /\ LastStep.array = <<1, 1, 2, 3>>

\* C2 (permutation): for every input of at least 2 elements, the 'array'
\* snapshot of the last recorded step holds the same multiset of values as
\* the input.
C2_Permutation ==
    (pc = "recorded" /\ Len(input) >= 2) =>
        (Len(steps) > 0 /\ SameMultiset(LastStep.array, input))

C2_Witness ==
    /\ pc = "recorded"
    /\ input = <<2, 3, 2, 1>>
    /\ Count(LastStep.array, 2) = 2
    /\ \E p \in 1..Len(steps) : ~SameMultiset(steps[p].array, input)

RECURSIVE InsertStable(_, _, _)
\* reference: insert tag t into the list a of tags, after every element
\* whose key is not greater
InsertStable(key, a, t) ==
    IF a = <<>> THEN <<t>>
    ELSE IF key[Head(a)] <= key[t]
         THEN <<Head(a)>> \o InsertStable(key, Tail(a), t)
         ELSE <<t>> \o a

RECURSIVE StableSortRef(_, _)
\* reference stable sort (insertion sort) of the first n tags 0..n-1
StableSortRef(key, n) ==
    IF n = 0 THEN <<>>
    ELSE InsertStable(key, StableSortRef(key, n - 1), n - 1)

\* C9 (stability): when the elements carry their original index as a tag
\* and are compared on the value only, the final snapshot equals the
\* result of a reference stable sort: equal values keep the order of their
\* original indices.
C9_Stability ==
    (pc = "tagged" /\ Len(input) >= 2) =>
        /\ LastStep.array = StableSortRef(TagKey(input), Len(input))
        /\ \A p, q \in 1..Len(input) :
              (p < q /\ At(input, LastStep.array[p]) = At(input, LastStep.array[q]))
                  => LastStep.array[p] < LastStep.array[q]

C9_Witness ==
    /\ pc = "tagged"
    /\ input = <<2, 1, 2, 1>>
    /\ LastStep.array = <<1, 3, 0, 2>>

\* the snapshot that precedes step p (1-based position in steps)
Preceding(first, p) == IF p = 1 THEN first ELSE steps[p - 1].array

DiffersAtMost(a, b, idxs) ==
    /\ Len(a) = Len(b)
    /\ \A q \in 1..Len(a) : a[q] # b[q] => \E r \in 1..Len(idxs) : idxs[r] = q - 1

\* C10 (snapshot convergence): every snapshot has the length of the input;
\* a 'merge' step's snapshot differs from the preceding snapshot (the input
\* for step 0) at most at the single index in its 'comparing' field, and a
\* 'split' step's snapshot equals the preceding snapshot.
C10_SnapshotConvergence ==
    (pc = "recorded") =>
        \A p \in 1..Len(steps) :
            /\ Len(steps[p].array) = Len(input)
            /\ steps[p].type = "merge" =>
                  /\ Len(steps[p].comparing) = 1
                  /\ DiffersAtMost(steps[p].array, Preceding(input, p),
                                   steps[p].comparing)
            /\ steps[p].type = "split" => steps[p].array = Preceding(input, p)
            /\ steps[p].type \in {"merge", "split"}

C10_Witness ==
    /\ pc = "recorded"
    /\ input = <<3, 2, 1>>
    /\ \E p \in 2..Len(steps) :
          steps[p].type = "merge" /\ steps[p].array # steps[p - 1].array
    /\ \E p \in 2..Len(steps) : steps[p].type = "split"

\* ------------------------------------------------------------------------
\* Properties of the session (Spec)
\* ------------------------------------------------------------------------
\* the trace as the recorder produced it at the latest "Start Merge Sort"
RecordedSteps ==
    merge_sort_with_steps(IntKey, [array |-> input, steps |-> <<>>],
                          input, 0, 0).self.steps

\* a non-empty trace is loaded
Loaded == Settled /\ sorting_done /\ has_steps /\ steps # <<>>

\* C3 (cursor range): whenever a non-empty trace is loaded, current_step
\* lies in 0..len(steps)-1, whatever playback transitions were taken.
C3_CursorInRange ==
    Loaded => (0 <= current_step /\ current_step <= Len(steps) - 1)

\* C4 (Tick): a Tick taken at a cursor below len-1 advances the cursor by
\* exactly one; whenever the cursor is len-1 after a Tick, playing is
\* false; a Tick taken at len-1 leaves the cursor there with playing false.
C4_Tick ==
    (Loaded /\ op.name = "Tick") =>
        /\ op.from < Len(steps) - 1 => current_step = op.from + 1
        /\ current_step = Len(steps) - 1 => ~is_playing
        /\ op.from = Len(steps) - 1 =>
              (current_step = Len(steps) - 1 /\ ~is_playing)

\* C5 (Previous/Next stop the play): after Previous and after Next playing
\* is false, also when the cursor was at its boundary and did not move.
C5_PreviousNextStopPlaying ==
    (Loaded /\ op.name \in {"Previous", "Next"}) => ~is_playing

\* C6 (Play): below len-1 Play sets playing and leaves the cursor; at len-1
\* Play is a no-op, playing stays false and the cursor stays at len-1.
C6_Play ==
    (Loaded /\ op.name = "Play") =>
        /\ op.from < Len(steps) - 1 => (is_playing /\ current_step = op.from)
        /\ (op.from = Len(steps) - 1 /\ ~op.was_playing) =>
              (~is_playing /\ current_step = Len(steps) - 1)

\* C7 (seek round-trip): after SeekTo(k), k in 0..len(steps)-1, from a
\* playing or a paused state, the cursor is k, and once that run has drawn
\* (it was not stopped before), the step drawn is step k of the recorded
\* trace (type, array snapshot, affected indices).
C7_SeekRoundTrip ==
    (Loaded /\ op.name = "SeekTo") =>
        /\ current_step = op.k
        /\ pc # "pending" =>
              /\ view # NoView
              /\ view.step = StepCore(At(RecordedSteps, op.k))
              /\ view.step = StepCore(At(steps, op.k))

C7_Witness ==
    /\ Loaded
    /\ pc = "loop"
    /\ op.name = "SeekTo"
    /\ op.k = 2
    /\ is_playing
    /\ view.step = StepCore(At(steps, 2))
    /\ view.step.type = "merge"

\* C8 (trace immutability): once "Start Merge Sort" has produced the steps
\* list, no playback transition and no render changes a Step record of it;
\* the previous step is never stored in it.
C8_TraceImmutable ==
    Loaded => steps = RecordedSteps

\* a Step record without the entry the render adds
WithoutPrevious(step) ==
    [f \in (DOMAIN step) \ {"previous_step"} |-> step[f]]

Max(a, b) == IF a >= b THEN a ELSE b

Min(a, b) == IF a <= b THEN a ELSE b

Clamp(i, lo, hi) == Max(lo, Min(i, hi))

\* C11 (clamped single-step navigation): Previous sets the cursor to
\* max(cursor - 1, 0) and Next sets it to min(cursor + 1, len - 1); each
\* moves by exactly one except at its boundary, where the cursor stays.
C11_ClampedNavigation ==
    /\ (Loaded /\ op.name = "Previous") => current_step = Max(op.from - 1, 0)
    /\ (Loaded /\ op.name = "Next") =>
          current_step = Min(op.from + 1, Len(steps) - 1)

\* the step lists a and b differ at most in 'previous_step' entries
SameCore(a, b) ==
    /\ Len(a) = Len(b)
    /\ \A p \in 1..Len(a) : WithoutPrevious(a[p]) = WithoutPrevious(b[p])

\* the step list after is the list before, but for a 'previous_step' entry
\* stored in the step at cursor cs, cs > 0, that refers to the step before
OnlyPreviousAdded(before, after, cs) ==
    /\ SameCore(after, before)
    /\ \A p \in 1..Len(after) :
          after[p] # before[p] =>
             /\ p = cs + 1
             /\ cs > 0
             /\ after[p].previous_step = cs - 1

\* C12 (SeekTo): SeekTo(i) sets the cursor to clamp(i, 0, len-1) and leaves
\* playing and the trace unchanged: while the slider's move is the latest
\* interaction, the cursor is the clamped position, and playing and the
\* steps list are what the move found.
C12_SeekTo ==
    (Loaded /\ op.name = "SeekTo") =>
        /\ current_step = Clamp(op.k, 0, Len(steps) - 1)
        /\ is_playing = op.was_playing
        /\ steps = op.steps_before

\* a press has replaced the array (line 364 or 378 has run) or the trace
\* (line 395 has run), and the next interaction stopped its run at pc p
ReplacedWhenStoppedAt(p) == p \in InstallPcs \cup (StartPcs \ {"start_record"})

\* C13 (loading resets playback): right after "Start Merge Sort" has
\* recorded a trace the cursor is 0 and playing is false, and so it is
\* after every "Create Array" / "Generate Random Array" that installs an
\* array and after every "Reset", whatever the playback state was before:
\* when the handler's statements have all run, and also when the array or
\* the trace was replaced by a press whose run a widget change then
\* stopped.
C13_LoadResetsPlayback ==
    /\ (Settled /\ op.name = "StartMergeSort" /\ op.recorded) =>
          (sorting_done /\ steps # <<>> /\ current_step = 0 /\ ~is_playing)
    /\ (Settled /\ op.name \in {"CreateArray", "GenerateRandom"}
                /\ op.outcome = "installed") =>
          (current_step = 0 /\ ~is_playing)
    /\ (Settled /\ op.name = "Reset") => (current_step = 0 /\ ~is_playing)
    /\ (Settled /\ op.name = "Rerun" /\ ReplacedWhenStoppedAt(op.stopped)) =>
          (current_step = 0 /\ ~is_playing)

\* C14 (auto-play stops): from every state with a loaded trace and playing
\* true, when only Ticks are taken, playing eventually becomes false.
C14_AutoPlayStops == (Loaded /\ is_playing) ~> ~is_playing

\* C15 (rejected input): a press of "Create Array" that is refused (empty
\* text, a field that is no integer, a number of values other than
\* num_nodes) leaves the array, array_created, sorting_done, the trace, the
\* cursor and is_playing as it found them.
C15_RejectedInput ==
    (op.name = "CreateArray" /\ op.outcome # "installed") =>
        /\ array = op.before.array
        /\ has_array = op.before.has_array
        /\ array_created = op.before.array_created
        /\ sorting_done = op.before.sorting_done
        /\ has_steps = op.before.has_steps
        /\ steps = op.before.steps
        /\ current_step = op.before.current_step
        /\ is_playing = op.before.is_playing

\* the indices a step names: both halves of a split, the written position
\* of a merge step
Affected(step) ==
    IF step.type = "split"
    THEN Elems(step.left) \cup Elems(step.right)
    ELSE Elems(step.comparing)

\* C16 (scenario): for the input [5,3,8,1] the trace starts with the root
\* split of [0,1] and [2,3]; the steps that follow touch only indices 0-1
\* until the snapshot is [3,5,8,1]; the next ones touch only indices 2-3
\* until the snapshot is [3,5,1,8]; the four placements of the final merge
\* end with [1,3,5,8]; and every run over this input records 11 steps.
C16_Scenario ==
    /\ (pc \in {"recorded", "tagged"} /\ input = Scenario) => Len(steps) = 11
    /\ (pc = "recorded" /\ input = Scenario) =>
          /\ steps[1].type = "split"
          /\ steps[1].left = <<0, 1>>
          /\ steps[1].right = <<2, 3>>
          /\ \E p, q \in 2..Len(steps) :
                /\ p < q
                /\ \A k \in 2..p : Affected(steps[k]) \subseteq {0, 1}
                /\ steps[p].array = <<3, 5, 8, 1>>
                /\ \A k \in (p + 1)..q : Affected(steps[k]) \subseteq {2, 3}
                /\ steps[q].array = <<3, 5, 1, 8>>
                /\ Len(steps) - q = Len(Scenario)
                /\ \A k \in (q + 1)..Len(steps) :
                      steps[k].type = "merge" /\ steps[k].level = 0
          /\ steps[Len(steps)].array = <<1, 3, 5, 8>>
          /\ array = <<1, 3, 5, 8>>

C16_Witness ==
    /\ pc = "recorded" /\ input = Scenario
    /\ Len(steps) = 11 /\ steps[11].array = <<1, 3, 5, 8>>

\* C18 (trivial inputs): for an input of length 0 or 1 the recorder records
\* no step and the working array is the input.
C18_TrivialInputs ==
    (pc = "recorded" /\ Len(input) <= 1) => (steps = <<>> /\ array = input)

C18_Witness ==
    pc = "recorded" /\ input = <<2>> /\ steps = <<>> /\ array = <<2>>

\* the steps a run of the recorder over arr records
TraceOf(arr) ==
    merge_sort_with_steps(IntKey, [array |-> arr, steps |-> <<>>],
                          arr, 0, 0).self.steps

\* the array a press of "Start Merge Sort" found: a recording press keeps
\* it in input, a press that records nothing in the state it found
ArrayAtPress == IF op.recorded THEN input ELSE op.before.array

\* C17 (re-running replaces the trace): after every press of "Start Merge
\* Sort" made while an array exists, once the run has passed the recorder
\* (line 395) or left it out, the steps list holds the steps of a
\* run of the recorder over the array as it stood at the press, and no
\* step of an earlier run.  The 'previous_step' entries a drawing stores
\* (C8) are set aside: the steps are compared without them.
C17_StartReplacesTrace ==
    (op.name = "StartMergeSort" /\ pc # "start_record") =>
        /\ has_steps
        /\ SameCore(steps, TraceOf(ArrayAtPress))

\* C17 amended: a press of "Start Merge Sort" made while sorting_done is
\* false leaves, once its run has passed the recorder (line 395), exactly
\* the trace of its own run over the array as it stood at the press; a
\* press made while sorting_done is true records
\* nothing and leaves the array and the steps as they were, but for the
\* 'previous_step' entry its run stores in the step it draws.
C17_StartReplacesTraceUnlessDone ==
    (op.name = "StartMergeSort" /\ pc # "start_record") =>
        IF op.recorded
        THEN steps = TraceOf(input) /\ has_steps
        ELSE /\ OnlyPreviousAdded(op.before.steps, steps, current_step)
             /\ array = op.before.array

C17_Witness ==
    /\ op.name = "StartMergeSort" /\ op.recorded /\ op.replaced
    /\ Settled
    /\ steps = RecordedSteps /\ steps # <<>>

\* the number of steps a call on a range of n elements records: its split,
\* the steps of both halves, and one merge step for each element
RECURSIVE TraceSize(_)
TraceSize(n) ==
    IF n <= 1 THEN 0
    ELSE 1 + TraceSize(n \div 2) + TraceSize(n - n \div 2) + n

\* the indices s, s+1, ..., s+n-1
Indices(s, n) == s..(s + n - 1)

\* C19 (step ordering): the split step of a call on a range of length >= 2
\* is followed by all steps of the left half (deeper levels, indices of the
\* left half only), then by all steps of the right half (deeper levels,
\* indices of the right half only), then by the merge steps of the range
\* itself, one after the other at the level of the split.
C19_StepOrdering ==
    pc = "recorded" =>
       \A p \in 1..Len(steps) :
          steps[p].type = "split" =>
             LET st   == steps[p]
                 nl   == Len(st.left)
                 nr   == Len(st.right)
                 a    == p + TraceSize(nl)
                 b    == a + TraceSize(nr)
                 e    == b + nl + nr
             IN  /\ e <= Len(steps)
                 /\ \A k \in (p + 1)..a :
                       /\ steps[k].level > st.level
                       /\ Affected(steps[k]) \subseteq Elems(st.left)
                 /\ \A k \in (a + 1)..b :
                       /\ steps[k].level > st.level
                       /\ Affected(steps[k]) \subseteq Elems(st.right)
                 /\ \A k \in (b + 1)..e :
                       /\ steps[k].type = "merge"
                       /\ steps[k].level = st.level
                       /\ Affected(steps[k]) \subseteq Affected(st)
                 /\ nl >= 2 => (a > p /\ steps[p + 1].type = "split")
                 /\ nr >= 2 => (b > a /\ steps[a + 1].type = "split")
                 /\ e < Len(steps) => steps[e + 1].level <= st.level

C19_Witness ==
    /\ pc = "recorded" /\ Len(input) = 4 /\ Len(steps) = TraceSize(4)
    /\ steps[1].type = "split" /\ steps[2].type = "split"
    /\ steps[5].type = "split" /\ steps[5].level = 1
    /\ steps[8].type = "merge" /\ steps[8].level = 0

\* step is the split of the range of n elements that starts at index s
SplitOf(step, s, n) ==
    /\ step.type = "split"
    /\ Len(step.left) = n \div 2
    /\ \A i \in 1..Len(step.left) : step.left[i] = s + i - 1
    /\ Len(step.right) = n - n \div 2
    /\ \A i \in 1..Len(step.right) : step.right[i] = s + n \div 2 + i - 1

\* C20 (split ranges): the first step of a run over n >= 2 elements splits
\* [0, n); every split step splits some range [s, s+n) of the array, n >= 2,
\* into left = [s, s + n div 2) and right = [s + n div 2, s + n), both
\* ascending, non-empty, disjoint, with union [s, s+n); and the splits of
\* its two halves, where they have 2 elements or more, split exactly left
\* and right.
C20_SplitRanges ==
    pc = "recorded" =>
       /\ Len(input) >= 2 => SplitOf(steps[1], 0, Len(input))
       /\ \A p \in 1..Len(steps) :
             steps[p].type = "split" =>
                \E s \in 0..(Len(input) - 1), n \in 2..Len(input) :
                   LET st  == steps[p]
                       mid == n \div 2
                   IN  /\ s + n <= Len(input)
                       /\ SplitOf(st, s, n)
                       /\ st.left # <<>> /\ st.right # <<>>
                       /\ Elems(st.left) \cap Elems(st.right) = {}
                       /\ Elems(st.left) = Indices(s, mid)
                       /\ Elems(st.right) = Indices(s + mid, n - mid)
                       /\ Elems(st.left) \cup Elems(st.right) = Indices(s, n)
                       /\ mid >= 2 => SplitOf(steps[p + 1], s, mid)
                       /\ n - mid >= 2 =>
                             SplitOf(steps[p + 1 + TraceSize(mid)], s + mid, n - mid)

C20_Witness ==
    /\ pc = "recorded" /\ Len(input) = 3
    /\ SplitOf(steps[1], 0, 3)
    /\ steps[1].left = <<0>> /\ steps[1].right = <<1, 2>>
    /\ SplitOf(steps[2], 1, 2)
    /\ steps[2].left = <<1>> /\ steps[2].right = <<2>>

\* C21 (one write per merge step): the merge of the range a split step
\* names, n elements from index s on, records exactly n merge steps, one
\* after the other; the k-th names the single index s + k - 1 in
\* 'comparing', its snapshot differs from the snapshot before it at most at
\* that index, and holds there the value its description names.
C21_OneWritePerPlace ==
    pc = "recorded" =>
       \A p \in 1..Len(steps) :
          steps[p].type = "split" =>
             LET st == steps[p]
                 nl == Len(st.left)
                 nr == Len(st.right)
                 n  == nl + nr
                 s  == st.left[1]
                 b  == p + TraceSize(nl) + TraceSize(nr)
             IN  /\ b + n <= Len(steps)
                 /\ \A k \in 1..n :
                       LET m == steps[b + k]
                       IN  /\ m.type = "merge"
                           /\ m.level = st.level
                           /\ m.comparing = <<s + k - 1>>
                           /\ DiffersAtMost(m.array, steps[b + k - 1].array,
                                            <<s + k - 1>>)
                           /\ m.array[s + k] = m.description[2]
                 /\ b + n < Len(steps) =>
                       ~(steps[b + n + 1].type = "merge"
                         /\ steps[b + n + 1].level = st.level)

\* a merge whose compare loop, left drain and right drain each record a step
C21_Witness ==
    /\ pc = "recorded" /\ input = <<1, 3, 2, 2>>
    /\ Len(steps) = TraceSize(4)
    /\ steps[8].comparing = <<0>> /\ steps[8].description[1] = "Merging: placed"
    /\ steps[11].comparing = <<3>>
    /\ steps[11].description[1] = "Adding remaining element"
    /\ steps[4].description[1] = "Adding remaining element"
    /\ steps[4].comparing = <<1>>

\* the elements of a at the 0-based indices s, ..., s+n-1
Slice(a, s, n) == [q \in 1..n |-> a[s + q]]

\* C22 (completed merge): at the last merge step of the range a split step
\* names, n elements from index s on, the snapshot is non-decreasing on the
\* range, holds there the same multiset of values as the input does, and
\* holds outside the range what the snapshot of the split step holds.
C22_CompletedMerge ==
    pc = "recorded" =>
       \A p \in 1..Len(steps) :
          steps[p].type = "split" =>
             LET st   == steps[p]
                 nl   == Len(st.left)
                 nr   == Len(st.right)
                 n    == nl + nr
                 s    == st.left[1]
                 e    == p + TraceSize(nl) + TraceSize(nr) + n
             IN  /\ e <= Len(steps)
                 /\ steps[e].type = "merge"
                 /\ steps[e].level = st.level
                 /\ steps[e].comparing = <<s + n - 1>>
                 /\ NonDecreasing(Slice(steps[e].array, s, n))
                 /\ SameMultiset(Slice(steps[e].array, s, n), Slice(input, s, n))
                 /\ \A q \in 1..Len(input) :
                       (q - 1) \notin Indices(s, n) =>
                          steps[e].array[q] = st.array[q]

\* the merge of the right half is completed while the left half is sorted
\* and the whole is not; a snapshot inside a merge is no permutation
C22_Witness ==
    /\ pc = "recorded" /\ input = <<3, 2, 2, 1>>
    /\ steps[5].type = "split" /\ steps[5].left = <<2>> /\ steps[5].right = <<3>>
    /\ steps[7].array = <<2, 3, 1, 2>>
    /\ ~NonDecreasing(steps[7].array)
    /\ \E q \in 8..Len(steps) : ~SameMultiset(steps[q].array, input)

\* C23 (session flags): in every state of the session in which the
\* statements of the latest interaction's handler have all run,
\* array_created implies that the visualizer's array is assigned; sorting_done implies
\* array_created and that the visualizer's steps is assigned; is_playing
\* implies sorting_done and a non-empty steps list; and what a run drew it
\* read from assigned attributes: an array drawing from an assigned array,
\* a step drawing from an assigned steps list (while a run is on its way to
\* its drawing the chart on the page is still the one of an earlier run).
C23_FlagConsistency ==
    Settled =>
        /\ array_created => has_array
        /\ sorting_done => (array_created /\ has_steps)
        /\ is_playing => (sorting_done /\ has_steps /\ steps # <<>>)
        /\ (pc # "pending" /\ view # NoView) => (array_created /\ has_array)
        /\ (pc # "pending" /\ view # NoView /\ view.step.type # "initial") =>
              (sorting_done /\ has_steps)

====
